---- MODULE Spec2Model ----
(***************************************************************************)
(* Model of the SeriesNavigation component                                 *)
(* (src/components/series-navigation.tsx): a collapsible list of the       *)
(* articles of a series.  The state is the useState flag isOpen, the props *)
(* the parent passes, and the element tree of the last render.             *)
(***************************************************************************)
EXTENDS Integers, Sequences, FiniteSets, TLC

\* ------------------------------------------------------------------ bounds
\* Longest articles array the parent passes.
MaxLen == 2
\* Most toggle activations counted on one mounted instance.
MaxToggles == 3

\* ------------------------------------------------------------ input domains
\* Props type, series-navigation.tsx:6-10.
SeriesTitles == {"Git", "Nest.js"}
Slugs == {"foo-bar", "c# tips"}
ArticleTitles == {"Intro", "Setup"}
Currents == Slugs \cup {"x"}

\* One entry of the articles array: an object {slug, title}, or null (the
\* code guards every access to an entry with `?.`).
NullArticle == [null |-> TRUE, slug |-> "", title |-> ""]
Article(s, t) == [null |-> FALSE, slug |-> s, title |-> t]
ArticleValues == {NullArticle} \cup {Article(s, t) : s \in Slugs, t \in ArticleTitles}

RECURSIVE SeqsUpTo(_, _)
SeqsUpTo(S, n) ==
  IF n = 0 THEN {<< >>}
  ELSE LET shorter == SeqsUpTo(S, n - 1)
       IN shorter \cup {Append(q, e) : q \in {r \in shorter : Len(r) = n - 1}, e \in S}

\* The articles prop: an array, or undefined (the code guards `articles?.map`).
UndefinedArticles == [defined |-> FALSE, items |-> << >>]
ArticlesValues ==
  {UndefinedArticles} \cup {[defined |-> TRUE, items |-> q] : q \in SeqsUpTo(ArticleValues, MaxLen)}

\* --------------------------------------------------------- JavaScript values
\* A value that is a string or undefined.
Undefined == [def |-> FALSE, str |-> ""]
Str(s) == [def |-> TRUE, str |-> s]

\* `article?.slug`: undefined when the entry is null, else the property.
OptSlug(article) == IF article.null THEN Undefined ELSE Str(article.slug)

\* `article?.title`
OptTitle(article) == IF article.null THEN Undefined ELSE Str(article.title)

\* Variant: `a = b` written for `a === b`: an assignment, truthy for every
\* non-empty string b.
StrictEqAssign(u, v) == v.def /\ v.str # ""

\* `a === b` on string-or-undefined values.
StrictEq(u, v) == u.def = v.def /\ (u.def => u.str = v.str)

\* String(v), as `+` and template literals apply it.
JsToString(v) == IF v.def THEN v.str ELSE "undefined"

\* Variant: `x.p` written for `x?.p`: a TypeError on a nullish x.
PlainAccessThrows(nullish) == nullish

\* `x?.p` on a nullish x yields undefined; it never throws.
OptChainThrows(nullish) == FALSE

\* A text child {v}: React renders a string, and nothing for undefined.
TextChild(v) == IF v.def THEN <<v.str>> ELSE << >>

\* ------------------------------------------------------------------ render
\* Variant: useState(true).
InitialIsOpenTrue == TRUE

\* useState(false), series-navigation.tsx:13.
InitialIsOpen == FALSE

\* Variant: setIsOpen(true), a handler that only ever opens.
ToggleListOpenOnly(open) == TRUE

\* toggleList: the value setIsOpen receives, computed from the isOpen the
\* render that created the handler saw (series-navigation.tsx:14-16).
ToggleList(open) == ~open

\* Variant: the border class written into the static part of the className.
HeaderClassStaticBorder(open) ==
  <<"flex", "justify-between", "rounded-lg", "rounded-b-none", "border",
    "border-slate-300", "bg-slate-100", "p-3", "dark:border-slate-700",
    "dark:bg-slate-900", "border-b-slate-200">>

\* className of the header row (lines 20-22), as its list of class tokens.
\* `${isOpen && 'border-b-slate-200'}` interpolates the string "false" when
\* isOpen is false.
HeaderClass(open) ==
  <<"flex", "justify-between", "rounded-lg", "rounded-b-none", "border",
    "border-slate-300", "bg-slate-100", "p-3", "dark:border-slate-700",
    "dark:bg-slate-900">>
  \o <<IF open THEN "border-b-slate-200" ELSE "false">>

\* Variant: the heading shows the title alone.
HeaderTextTitleOnly(t) == t

\* {title} - Article Series (line 24).
HeaderText(t) == t \o " - Article Series"

\* Variant: the two icons swapped.
ToggleIconSwapped(open) == IF open THEN "DownIcon" ELSE "UpIcon"

\* {isOpen ? <UpIcon /> : <DownIcon />} (line 31).
ToggleIcon(open) == IF open THEN "UpIcon" ELSE "DownIcon"

\* Variant: the handler is created once, by the first render (a memoised
\* callback with no dependencies), and keeps the isOpen that render saw.
ToggleButtonStaleHandler(open) ==
  [onClick |-> ToggleList(InitialIsOpen),
   dataAccordionTarget |-> "#accordion-collapse-body",
   ariaExpanded |-> "true",
   ariaControls |-> "accordion-collapse-body",
   icon |-> ToggleIcon(open)]

\* Variant: aria-expanded follows the state (aria-expanded={isOpen}).
ToggleButtonAriaFollowsState(open) ==
  [onClick |-> ToggleList(open),
   dataAccordionTarget |-> "#accordion-collapse-body",
   ariaExpanded |-> IF open THEN "true" ELSE "false",
   ariaControls |-> "accordion-collapse-body",
   icon |-> ToggleIcon(open)]

\* The toggle button (lines 25-32).
ToggleButton(open) ==
  [onClick |-> ToggleList(open),
   dataAccordionTarget |-> "#accordion-collapse-body",
   ariaExpanded |-> "true",
   ariaControls |-> "accordion-collapse-body",
   icon |-> ToggleIcon(open)]

\* The header row (lines 19-33).
Header(t, open) ==
  [class |-> HeaderClass(open), text |-> HeaderText(t), button |-> ToggleButton(open)]

\* className of a highlighted and of a default <li> (lines 45-46).
HighlightClass ==
  <<"font-medium", "text-slate-900", "underline", "decoration-slate-400",
    "decoration-2", "underline-offset-2", "dark:text-slate-100",
    "dark:decoration-slate-700">>
DefaultClass ==
  <<"text-slate-700", "hover:text-slate-900", "dark:text-slate-300",
    "dark:hover:text-slate-100">>

\* Variant: the two branches of the conditional swapped.
ItemClassSwapped(article, c) ==
  IF StrictEq(OptSlug(article), Str(c)) THEN DefaultClass ELSE HighlightClass

\* Variant: the default classes always applied and the highlighted ones
\* added for the current entry.
ItemClassAdditive(article, c) ==
  IF StrictEq(OptSlug(article), Str(c)) THEN DefaultClass \o HighlightClass ELSE DefaultClass

\* article?.slug === current ? highlighted : default (lines 43-47).
ItemClass(article, c) ==
  IF StrictEq(OptSlug(article), Str(c)) THEN HighlightClass ELSE DefaultClass

\* Fixed base of every link target (line 50).
BaseUrl == "https://ayoubkhial.com/blog/"

\* Variant: a separator added between the base and the slug.
HrefExtraSlash(article) == BaseUrl \o "/" \o JsToString(OptSlug(article))

\* href of the link (line 50).
Href(article) == BaseUrl \o JsToString(OptSlug(article))

\* Variant: the label shows the 0-based index.
PartLabelZeroBased(index) == "Part " \o ToString(index) \o ":"

\* Part {index + 1}: (line 55); index is the 0-based index map passes.
PartLabel(index) == "Part " \o ToString(index + 1) \o ":"

\* Variant: the link without target and rel: it opens in the same context.
ItemSameTab(article, index, c) ==
  [key |-> index,
   class |-> ItemClass(article, c),
   href |-> Href(article),
   target |-> "_self",
   rel |-> "",
   label |-> PartLabel(index),
   text |-> TextChild(OptTitle(article))]

\* One <li> of the list, for the entry at 0-based index (lines 41-57).
Item(article, index, c) ==
  [key |-> index,
   class |-> ItemClass(article, c),
   href |-> Href(article),
   target |-> "_blank",
   rel |-> "noopener noreferrer",
   label |-> PartLabel(index),
   text |-> TextChild(OptTitle(article))]

\* Variant: the items rendered in reverse order.
ListItemsReversed(a, c) ==
  IF ~a.defined THEN << >>
  ELSE [k \in 1..Len(a.items) |->
          Item(a.items[Len(a.items) + 1 - k], Len(a.items) - k, c)]

\* {articles?.map((article, index) => <li>...</li>)} (lines 40-58): the
\* children of the <ul>; undefined renders no child.
ListItems(a, c) ==
  IF ~a.defined THEN << >>
  ELSE [k \in 1..Len(a.items) |-> Item(a.items[k], k - 1, c)]

\* Variant: the container always rendered (and hidden by styling when closed).
BodyAlwaysRendered(a, c, open) ==
  <<[id |-> "accordion-collapse-body",
     ariaLabelledby |-> "accordion-collapse-heading",
     items |-> ListItems(a, c)]>>

\* Variant: isOpen && articles?.length > 0 && (...): no container for an
\* empty list.
BodyHiddenWhenEmpty(a, c, open) ==
  IF open /\ a.defined /\ Len(a.items) > 0
  THEN <<[id |-> "accordion-collapse-body",
          ariaLabelledby |-> "accordion-collapse-heading",
          items |-> ListItems(a, c)]>>
  ELSE << >>

\* Variant: isOpen && articles && (...): no container when articles is
\* undefined.
BodyHiddenWhenUndefined(a, c, open) ==
  IF open /\ a.defined
  THEN <<[id |-> "accordion-collapse-body",
          ariaLabelledby |-> "accordion-collapse-heading",
          items |-> ListItems(a, c)]>>
  ELSE << >>

\* Variant: the container carries another id than the button's
\* aria-controls names.
BodyOtherId(a, c, open) ==
  IF open
  THEN <<[id |-> "accordion-body",
          ariaLabelledby |-> "accordion-collapse-heading",
          items |-> ListItems(a, c)]>>
  ELSE << >>

\* {isOpen && (<div id="accordion-collapse-body">...</div>)} (lines 34-61):
\* the child slot after the header; React renders nothing for false.
Body(a, c, open) ==
  IF open
  THEN <<[id |-> "accordion-collapse-body",
          ariaLabelledby |-> "accordion-collapse-heading",
          items |-> ListItems(a, c)]>>
  ELSE << >>

\* Whether evaluating the JSX throws: the only member accesses on values
\* that may be nullish are articles?.map and article?.slug / article?.title,
\* evaluated when isOpen holds.
RenderThrows(a, open) ==
  open /\ (\/ OptChainThrows(~a.defined)
           \/ \E k \in 1..Len(a.items) : OptChainThrows(a.items[k].null))

\* The element tree SeriesNavigation returns (lines 17-63).  header and body
\* are child slots: a sequence holding the element, or empty when absent.
Render(t, a, c, open) ==
  [header |-> <<Header(t, open)>>, body |-> Body(a, c, open)]

\* id of the root <div> (line 18).
RootId == "accordion-collapse"

\* The ids of the elements of a committed tree: the root <div> (line 18)
\* and the list container (line 35); no other element carries an id.
ElementIds(v) ==
  IF v.header = << >> THEN {}
  ELSE {RootId} \cup {v.body[k].id : k \in 1..Len(v.body)}

\* Nothing of the widget is in the document (unmounted, or a render threw).
NoView == [header |-> << >>, body |-> << >>]

\* ------------------------------------------------------------------- state
VARIABLES
  mounted,   \* an instance of the widget is in the document
  crashed,   \* a render of the instance threw
  title,     \* props of the last render
  articles,
  current,
  isOpen,    \* the useState flag of the instance
  view,      \* the element tree committed by the last render
  toggles,   \* toggle activations since the instance was mounted
  opened,    \* href of the last link opened in a new browsing context, or ""
  other      \* a second instance of the widget on the same page (a record)

vars == <<mounted, crashed, title, articles, current, isOpen, view, toggles, opened, other>>

\* The props, state and output of the first instance.
instance == <<mounted, crashed, title, articles, current, isOpen, view, toggles>>

\* The second instance, absent from the page.
NoOther ==
  [mounted |-> FALSE, crashed |-> FALSE, title |-> "", articles |-> UndefinedArticles,
   current |-> "", isOpen |-> FALSE, view |-> NoView, toggles |-> 0]

\* A sequence in reverse order.
Reverse(q) == [k \in 1..Len(q) |-> q[Len(q) + 1 - k]]

\* Variant: the render reverses the caller's array in place
\* (articles.reverse().map(...)).
CommitReversesArticles(t, a, c, open) ==
  /\ title' = t
  /\ articles' = [a EXCEPT !.items = Reverse(a.items)]
  /\ current' = c
  /\ isOpen' = open
  /\ crashed' = RenderThrows(a, open)
  /\ view' = IF RenderThrows(a, open) THEN NoView
             ELSE Render(t, [a EXCEPT !.items = Reverse(a.items)], c, open)

\* Variant: the list is computed when the widget opens and reused by later
\* renders while it stays open (a memoised list with no dependencies).
CommitMemoBody(t, a, c, open) ==
  /\ title' = t
  /\ articles' = a
  /\ current' = c
  /\ isOpen' = open
  /\ crashed' = RenderThrows(a, open)
  /\ view' = IF RenderThrows(a, open) THEN NoView
             ELSE [Render(t, a, c, open) EXCEPT
                     !.body = IF open /\ view.body # << >> THEN view.body ELSE @]

\* A render with props (t, a, c) and hook state open, and its commit.
Commit(t, a, c, open) ==
  /\ title' = t
  /\ articles' = a
  /\ current' = c
  /\ isOpen' = open
  /\ crashed' = RenderThrows(a, open)
  /\ view' = IF RenderThrows(a, open) THEN NoView ELSE Render(t, a, c, open)

\* The parent page renders <SeriesNavigation title articles current />.
Init ==
  /\ mounted = TRUE
  /\ toggles = 0
  /\ opened = ""
  /\ other = NoOther
  /\ title \in SeriesTitles
  /\ articles \in ArticlesValues
  /\ current \in Currents
  /\ isOpen = InitialIsOpen
  /\ crashed = RenderThrows(articles, isOpen)
  /\ view = IF crashed THEN NoView ELSE Render(title, articles, current, isOpen)

\* Variant: the flag is kept outside the instance and read back on mount.
MountRestoresFlag(t, a, c) ==
  /\ ~mounted
  /\ mounted' = TRUE
  /\ toggles' = 0
  /\ Commit(t, a, c, isOpen)
  /\ UNCHANGED <<opened, other>>

\* A new instance is mounted: useState(false) initialises its flag.
Mount(t, a, c) ==
  /\ ~mounted
  /\ mounted' = TRUE
  /\ toggles' = 0
  /\ Commit(t, a, c, InitialIsOpen)
  /\ UNCHANGED <<opened, other>>

\* The instance is disposed: its tree leaves the document and its props are
\* released.  The flag keeps its last value; no later instance reads it.
Unmount ==
  /\ mounted
  /\ mounted' = FALSE
  /\ crashed' = FALSE
  /\ title' = ""
  /\ articles' = UndefinedArticles
  /\ current' = ""
  /\ view' = NoView
  /\ UNCHANGED <<isOpen, toggles, opened, other>>

\* Variant: the control is disabled once the list is open.
ToggleOnlyWhenCollapsed ==
  /\ mounted /\ ~crashed
  /\ ~isOpen
  /\ toggles < MaxToggles
  /\ toggles' = toggles + 1
  /\ Commit(title, articles, current, view.header[1].button.onClick)
  /\ UNCHANGED <<mounted, opened, other>>

\* The user activates the toggle button: onClick = toggleList calls
\* setIsOpen with the value its render computed, and React re-renders before
\* the next event.
Toggle ==
  /\ mounted /\ ~crashed
  /\ toggles < MaxToggles
  /\ toggles' = toggles + 1
  /\ Commit(title, articles, current, view.header[1].button.onClick)
  /\ UNCHANGED <<mounted, opened, other>>

\* The parent re-renders the instance with a new title.
RerenderTitle(t) ==
  /\ mounted /\ ~crashed
  /\ Commit(t, articles, current, isOpen)
  /\ UNCHANGED <<mounted, toggles, opened, other>>

\* The parent re-renders the instance with a new articles array.
RerenderArticles(a) ==
  /\ mounted /\ ~crashed
  /\ Commit(title, a, current, isOpen)
  /\ UNCHANGED <<mounted, toggles, opened, other>>

\* Variant: a re-render with a new current slug re-initialises the flag.
RerenderCurrentResets(c) ==
  /\ mounted /\ ~crashed
  /\ Commit(title, articles, c, InitialIsOpen)
  /\ UNCHANGED <<mounted, toggles, opened, other>>

\* Variant: the list is memoised on the articles array alone, so a re-render
\* with a new current slug keeps the tree of the previous render.
RerenderCurrentStaleView(c) ==
  /\ mounted /\ ~crashed
  /\ current' = c
  /\ UNCHANGED <<mounted, crashed, title, articles, isOpen, view, toggles, opened, other>>

\* The parent re-renders the instance with a new current slug.
RerenderCurrent(c) ==
  /\ mounted /\ ~crashed
  /\ Commit(title, articles, c, isOpen)
  /\ UNCHANGED <<mounted, toggles, opened, other>>

\* The user activates the link of the k-th rendered item.  With
\* target="_blank" the href opens in a new browsing context and this page
\* stays; otherwise the page would navigate away and dispose the widget.
ClickLink(k) ==
  /\ mounted /\ ~crashed
  /\ view.body # << >>
  /\ k \in 1..Len(view.body[1].items)
  /\ opened' = view.body[1].items[k].href
  /\ UNCHANGED other
  /\ IF view.body[1].items[k].target = "_blank"
     THEN UNCHANGED <<mounted, crashed, title, articles, current, isOpen, view, toggles>>
     ELSE /\ mounted' = FALSE
          /\ crashed' = FALSE
          /\ title' = ""
          /\ articles' = UndefinedArticles
          /\ current' = ""
          /\ view' = NoView
          /\ UNCHANGED <<isOpen, toggles>>

Next ==
  \/ \E t \in SeriesTitles, a \in ArticlesValues, c \in Currents : Mount(t, a, c)
  \/ Unmount
  \/ Toggle
  \/ \E t \in SeriesTitles : RerenderTitle(t)
  \/ \E a \in ArticlesValues : RerenderArticles(a)
  \/ \E c \in Currents : RerenderCurrent(c)
  \/ \E k \in 1..MaxLen : ClickLink(k)

Spec == Init /\ [][Next]_vars

\* ------------------------------------------------------- two instances
\* A page that renders the widget twice: each <SeriesNavigation /> element
\* has its own props and its own useState cell.  The props the page passes
\* to either instance:
PageArticlesValues ==
  {UndefinedArticles,
   [defined |-> TRUE, items |-> << >>],
   [defined |-> TRUE, items |-> <<Article("foo-bar", "Intro")>>],
   [defined |-> TRUE, items |-> <<Article("foo-bar", "Intro"), Article("c# tips", "Setup")>>]}

\* The second instance after a render with props (t, a, c) and hook state
\* open, n activations after its mount.
OtherCommitted(t, a, c, open, n) ==
  [mounted |-> TRUE,
   crashed |-> RenderThrows(a, open),
   title |-> t,
   articles |-> a,
   current |-> c,
   isOpen |-> open,
   view |-> IF RenderThrows(a, open) THEN NoView ELSE Render(t, a, c, open),
   toggles |-> n]

\* The page renders both instances.
InitTwo ==
  /\ mounted = TRUE
  /\ toggles = 0
  /\ opened = ""
  /\ title \in SeriesTitles
  /\ articles \in PageArticlesValues
  /\ current \in Currents
  /\ isOpen = InitialIsOpen
  /\ crashed = RenderThrows(articles, isOpen)
  /\ view = IF crashed THEN NoView ELSE Render(title, articles, current, isOpen)
  /\ \E t \in SeriesTitles, a \in PageArticlesValues, c \in Currents :
       other = OtherCommitted(t, a, c, InitialIsOpen, 0)

\* The page mounts the second instance: its own useState(false).
MountOther(t, a, c) ==
  /\ ~other.mounted
  /\ other' = OtherCommitted(t, a, c, InitialIsOpen, 0)
  /\ UNCHANGED <<instance, opened>>

\* The page disposes the second instance.
UnmountOther ==
  /\ other.mounted
  /\ other' = [NoOther EXCEPT !.isOpen = other.isOpen, !.toggles = other.toggles]
  /\ UNCHANGED <<instance, opened>>

\* Variant: the flag is a module-level variable shared by the instances, so
\* an activation on the second instance also re-renders the first with it.
ToggleOtherSharedFlag ==
  /\ other.mounted /\ ~other.crashed
  /\ other.toggles < MaxToggles
  /\ other' = OtherCommitted(other.title, other.articles, other.current,
                             other.view.header[1].button.onClick, other.toggles + 1)
  /\ IF mounted /\ ~crashed
     THEN /\ Commit(title, articles, current, other.view.header[1].button.onClick)
          /\ UNCHANGED <<mounted, toggles, opened>>
     ELSE UNCHANGED <<instance, opened>>

\* The user activates the toggle button of the second instance: its
\* toggleList sets its own flag and React re-renders that instance.
ToggleOther ==
  /\ other.mounted /\ ~other.crashed
  /\ other.toggles < MaxToggles
  /\ other' = OtherCommitted(other.title, other.articles, other.current,
                             other.view.header[1].button.onClick, other.toggles + 1)
  /\ UNCHANGED <<instance, opened>>

\* The user activates the link of the k-th item of the second instance
\* (target "_blank": the page stays).
ClickLinkOther(k) ==
  /\ other.mounted /\ ~other.crashed
  /\ other.view.body # << >>
  /\ k \in 1..Len(other.view.body[1].items)
  /\ other.view.body[1].items[k].target = "_blank"
  /\ opened' = other.view.body[1].items[k].href
  /\ UNCHANGED <<instance, other>>

NextTwo ==
  \/ Toggle
  \/ \E k \in 1..MaxLen : ClickLink(k)
  \/ ToggleOther
  \/ \E k \in 1..MaxLen : ClickLinkOther(k)
  \/ \E t \in SeriesTitles, a \in PageArticlesValues, c \in Currents : MountOther(t, a, c)
  \/ UnmountOther

SpecTwo == InitTwo /\ [][NextTwo]_vars

\* --------------------------------------------------------------- properties
\* The two states of the widget's state machine, for a mounted instance.
Expanded == mounted /\ ~crashed /\ isOpen
Collapsed == mounted /\ ~crashed /\ ~isOpen

\* The container of the article list is in the rendered output.
ListRendered == view.body # << >>

\* The rendered <li> items (defined when ListRendered).
Items == view.body[1].items

\* The articles array the list is rendered from.
Entries == articles.items

\* C1: an instance that has not been toggled since it was mounted is
\* Collapsed and its output holds the header but no list container, whatever
\* the articles prop is (an array, empty or not, or undefined).
InitialRenderCollapsed ==
  (mounted /\ toggles = 0) =>
    /\ ~crashed
    /\ ~isOpen
    /\ Len(view.header) = 1
    /\ view.body = << >>

\* A second instance (a link was opened through an earlier one), freshly
\* mounted with a full articles array, shows no list.
InitialRenderWitness ==
  /\ mounted /\ toggles = 0 /\ opened # ""
  /\ articles.defined /\ Len(Entries) = MaxLen
  /\ ~isOpen /\ view.body = << >>

\* C2: after n toggle activations on a mounted instance the widget is
\* Expanded if n is odd and Collapsed if n is even, whatever the props are
\* and however often the parent re-rendered in between.
StateIsToggleParity ==
  mounted => /\ ~crashed
             /\ isOpen <=> (toggles % 2 = 1)

\* Three activations, with props that changed since: Expanded.
ToggleParityWitness ==
  /\ mounted /\ toggles = 3 /\ isOpen
  /\ current = "x" /\ articles.defined /\ Len(Entries) = 1

\* C3: the list container is in the rendered output if and only if the
\* widget is Expanded; when Collapsed the slot after the header is empty, so
\* neither the container nor any item is rendered.
ListRenderedIffExpanded ==
  mounted => /\ ListRendered <=> isOpen
             /\ ~isOpen => view.body = << >>
             /\ isOpen => Len(view.body) = 1

\* Collapsed again after having been Expanded, over a non-empty array: the
\* list is gone from the output.
ListAbsentWitness ==
  /\ Collapsed /\ toggles = 2
  /\ articles.defined /\ Len(Entries) = MaxLen
  /\ view.body = << >>

\* C4: within the life of an instance, a step changes the toggle state only
\* if it is an activation of the toggle control, and every activation flips
\* it; re-renders with new title, articles or current and link activations
\* leave it unchanged.
OnlyToggleChangesState ==
  [][/\ Toggle => isOpen' = ~isOpen
     /\ (mounted /\ mounted' /\ ~Toggle) => isOpen' = isOpen]_vars

\* Expanded by one activation, and still Expanded after a link was
\* activated and the props were changed.
OnlyToggleWitness ==
  /\ Expanded /\ toggles = 1 /\ opened # ""
  /\ current = "x" /\ title = "Git" /\ ~articles.defined

\* C5: when Expanded over an articles array, the list has one item per entry
\* in the entry order: as many items as entries, and the item at position k
\* shows the title of entry k (no title for a null entry).
ItemsFollowArticles ==
  (Expanded /\ articles.defined) =>
    /\ ListRendered
    /\ Len(Items) = Len(Entries)
    /\ \A k \in 1..Len(Entries) :
         Items[k].text = IF Entries[k].null THEN << >> ELSE <<Entries[k].title>>

\* Two entries with different titles, shown in the order given.
ItemsFollowWitness ==
  /\ Expanded /\ articles.defined /\ Len(Entries) = 2
  /\ ~Entries[1].null /\ ~Entries[2].null
  /\ Entries[1].title = "Setup" /\ Entries[2].title = "Intro"
  /\ Items[1].text = <<"Setup">> /\ Items[2].text = <<"Intro">>

\* C6: the item for the entry at 0-based index i carries the label
\* "Part i+1:", so the labels run 1..length without gap or repeat.
LabelsOneIndexed ==
  (Expanded /\ articles.defined) =>
    \A i \in 0..(Len(Entries) - 1) :
      Items[i + 1].label = "Part " \o ToString(i + 1) \o ":"

\* A list of full length whose last label is "Part <length>:".
LabelsWitness ==
  /\ Expanded /\ articles.defined /\ Len(Entries) = MaxLen
  /\ Len(Items) = MaxLen
  /\ Items[1].label = "Part 1:"
  /\ Items[MaxLen].label = "Part " \o ToString(MaxLen) \o ":"

\* The entry at position k is the current article.
IsCurrent(k) == ~Entries[k].null /\ Entries[k].slug = current

\* C7: when Expanded, an item carries the highlighted styling if and only if
\* its entry's slug equals current; every other item carries the default
\* styling.
HighlightIffCurrent ==
  (Expanded /\ articles.defined) =>
    \A k \in 1..Len(Items) :
      /\ Items[k].class = HighlightClass <=> IsCurrent(k)
      /\ ~IsCurrent(k) => Items[k].class = DefaultClass

\* One entry is the current article and is highlighted, the other is not.
HighlightWitness ==
  /\ Expanded /\ articles.defined /\ Len(Entries) = 2
  /\ IsCurrent(2) /\ ~IsCurrent(1) /\ ~Entries[1].null
  /\ Items[2].class = HighlightClass /\ Items[1].class = DefaultClass

\* Positions of the highlighted items, and of the entries that are the
\* current article.
HighlightedItems == {k \in 1..Len(Items) : Items[k].class = HighlightClass}
CurrentEntries == {k \in 1..Len(Entries) : IsCurrent(k)}

\* No two non-null entries share a slug.
SlugsDistinct ==
  \A j, k \in 1..Len(Entries) :
    (j # k /\ ~Entries[j].null /\ ~Entries[k].null) => Entries[j].slug # Entries[k].slug

\* C8 as stated: exactly one item is highlighted if some entry's slug equals
\* current and none otherwise, never more than one, repeated slugs included.
AtMostOneHighlighted ==
  (Expanded /\ articles.defined) =>
    Cardinality(HighlightedItems) = IF CurrentEntries # {} THEN 1 ELSE 0

\* C8, amended: every entry whose slug equals current is highlighted and no
\* other, so none is highlighted when no slug matches, and exactly one when
\* a slug matches and the slugs of the array are pairwise distinct.
HighlightedCount ==
  (Expanded /\ articles.defined) =>
    /\ Cardinality(HighlightedItems) = Cardinality(CurrentEntries)
    /\ CurrentEntries = {} => HighlightedItems = {}
    /\ (CurrentEntries # {} /\ SlugsDistinct) => Cardinality(HighlightedItems) = 1

\* Distinct slugs, one of them current: one highlighted item.
HighlightedCountWitness ==
  /\ Expanded /\ articles.defined /\ Len(Entries) = 2
  /\ SlugsDistinct /\ ~Entries[1].null /\ ~Entries[2].null
  /\ CurrentEntries # {}
  /\ Cardinality(HighlightedItems) = 1

\* C9: the link target of every entry's item is the fixed base URL followed
\* by the entry's slug, character for character; it depends on the slug
\* alone.
LinkTargetIsBasePlusSlug ==
  (Expanded /\ articles.defined) =>
    \A k \in 1..Len(Entries) :
      ~Entries[k].null =>
        /\ Items[k].href = "https://ayoubkhial.com/blog/" \o Entries[k].slug
        /\ Len(Items[k].href) = Len("https://ayoubkhial.com/blog/") + Len(Entries[k].slug)

\* The targets of "foo-bar" and of a slug with a space and a '#' in it.
LinkTargetWitness ==
  /\ Expanded /\ articles.defined /\ Len(Entries) = 2
  /\ ~Entries[1].null /\ Entries[1].slug = "foo-bar"
  /\ ~Entries[2].null /\ Entries[2].slug = "c# tips"
  /\ Items[1].href = "https://ayoubkhial.com/blog/foo-bar"
  /\ Items[2].href = "https://ayoubkhial.com/blog/c# tips"

\* articles = []
EmptyArticles == [defined |-> TRUE, items |-> << >>]

\* C10: with articles = [], whatever current is, activating the toggle of the
\* Collapsed widget reaches Expanded and renders the list container with no
\* item in it, and the render does not throw.
EmptyListExpands ==
  [][(Toggle /\ Collapsed /\ articles = EmptyArticles) =>
       /\ Expanded'
       /\ Len(view'.body) = 1
       /\ view'.body[1].id = "accordion-collapse-body"
       /\ view'.body[1].items = << >>]_vars

\* articles = [], current = "x", expanded by one activation: an empty
\* container.
EmptyListWitness ==
  /\ Expanded /\ toggles = 1
  /\ articles = EmptyArticles /\ current = "x"
  /\ Len(view.body) = 1 /\ view.body[1].items = << >>

\* C11: no render ends in an error: whatever the toggle state, the title,
\* the articles (an array, empty or with null entries, or undefined) and the
\* current slug (matching an entry or not), the instance's output holds the
\* header and, when Expanded, the list container.
RenderNeverFails ==
  mounted => /\ ~crashed
             /\ Len(view.header) = 1
             /\ isOpen => Len(view.body) = 1

\* Expanded over an array with a null entry and a current slug no entry has.
RenderNullEntryWitness ==
  /\ Expanded /\ articles.defined /\ Len(Entries) = 2
  /\ Entries[1].null /\ ~Entries[2].null
  /\ current = "x"
  /\ Len(view.header) = 1 /\ Len(Items) = 2

\* The em dash (U+2014) of the label the specification names; the strings of
\* the model are ASCII, so the character is written as its escape.
EmDashLabel == "\\u2014 Article Series"

\* C12 as stated: in every state of a mounted instance the header is
\* rendered and its text is the title followed by "<em dash> Article Series".
HeaderTextEmDash ==
  mounted => /\ Len(view.header) = 1
             /\ \E sep \in {"", " "} : view.header[1].text = title \o sep \o EmDashLabel

\* C12, amended: in every state of a mounted instance, Collapsed or
\* Expanded, the header is rendered and its text is the title followed by
\* " - Article Series", the separator being a hyphen-minus.
HeaderAlwaysRendered ==
  mounted => /\ Len(view.header) = 1
             /\ view.header[1].text = title \o " - Article Series"

\* The header of an Expanded and re-titled instance.
HeaderWitness ==
  /\ Expanded /\ toggles = 1 /\ title = "Nest.js"
  /\ view.header[1].text = "Nest.js - Article Series"

\* C13: the toggle control shows one of two distinct icons: the up icon when
\* Expanded and the down icon when Collapsed, so the icon agrees with whether
\* the list is rendered.
IconReflectsState ==
  mounted =>
    LET icon == view.header[1].button.icon
    IN /\ icon \in {"UpIcon", "DownIcon"}
       /\ icon = "UpIcon" <=> isOpen
       /\ icon = "DownIcon" <=> ~isOpen
       /\ icon = "UpIcon" <=> ListRendered

\* Collapsed after two activations: the down icon and no list.
IconWitness ==
  /\ Collapsed /\ toggles = 2
  /\ view.header[1].button.icon = "DownIcon" /\ ~ListRendered

\* C14: the toggle state is not persisted: an instance mounted after an
\* earlier one was disposed starts Collapsed with no list, whatever the flag
\* of the disposed instance was.
MountStartsCollapsed ==
  [][(~mounted /\ mounted') =>
       /\ ~isOpen'
       /\ view'.body = << >>
       /\ view'.header[1].button.icon = "DownIcon"]_vars

\* A fresh instance, mounted after an earlier one had been expanded and had
\* one of its links opened.
MountStartsCollapsedWitness ==
  /\ Collapsed /\ toggles = 0
  /\ opened = "https://ayoubkhial.com/blog/foo-bar"
  /\ ~articles.defined /\ current = "x"

\* C16: the widget never modifies its inputs: a toggle activation or a link
\* activation leaves the title, the articles array (length, order, every
\* entry) and the current slug exactly as the caller last supplied them.
InputsNeverModified ==
  [][(mounted /\ mounted' /\ (Toggle \/ \E k \in 1..MaxLen : ClickLink(k))) =>
       /\ title' = title
       /\ articles' = articles
       /\ current' = current]_vars

\* Two different entries, still in the caller's order after three
\* activations and an opened link.
InputsWitness ==
  /\ Expanded /\ toggles = 3 /\ opened # ""
  /\ articles.defined /\ Len(Entries) = 2
  /\ Entries[1] = Article("foo-bar", "Intro")
  /\ Entries[2] = Article("c# tips", "Setup")
  /\ title = "Git" /\ current = "foo-bar"

\* C17: every rendered link opens in a new browsing context
\* (target "_blank") with opener and referrer isolation
\* (rel "noopener noreferrer"), for every entry, whenever the list is
\* rendered.
LinksOpenIsolated ==
  (mounted /\ ListRendered) =>
    \A k \in 1..Len(Items) :
      /\ Items[k].target = "_blank"
      /\ Items[k].rel = "noopener noreferrer"

\* A list of full length, null entry included, with a link already opened
\* while the page stayed.
LinksWitness ==
  /\ Expanded /\ opened # "" /\ Len(Items) = MaxLen
  /\ articles.defined /\ Entries[1].null
  /\ Items[1].target = "_blank" /\ Items[MaxLen].rel = "noopener noreferrer"

\* C18: the handler of the committed tree is never stale: it was created by
\* the render that saw the committed isOpen, so every activation sets the
\* negation of the committed state and no two activations collapse into one
\* flip.
HandlerNeverStale ==
  mounted => /\ Len(view.header) = 1
             /\ view.header[1].button.onClick = ~isOpen

\* After three activations the handler is the one that closes the list.
HandlerWitness ==
  /\ Expanded /\ toggles = 3
  /\ articles = EmptyArticles
  /\ view.header[1].button.onClick = FALSE

\* C19: a mounted instance is never stuck: in both states the toggle control
\* is rendered and an activation is possible (up to MaxToggles activations,
\* the count the model follows), and every activation leaves the instance
\* mounted in the other state, with a render that shows it.
NoTerminalState ==
  /\ [](mounted => /\ Len(view.header) = 1
                   /\ toggles < MaxToggles => ENABLED Toggle)
  /\ [][Toggle =>
         /\ mounted' /\ ~crashed'
         /\ isOpen' # isOpen
         /\ (view'.body # << >>) = isOpen'
         /\ view'.header[1].button.icon = (IF isOpen' THEN "UpIcon" ELSE "DownIcon")]_vars

\* Back in Collapsed from Expanded, with a further activation possible.
NoTerminalWitness ==
  /\ Collapsed /\ toggles = 2 /\ toggles < MaxToggles
  /\ current = "c# tips" /\ ~articles.defined
  /\ ENABLED Toggle

\* C20: the committed output is the function Render of (title, articles,
\* current, isOpen) alone, so with the props unchanged the list shown after
\* collapsing and expanding again is the one shown before, however many
\* activations lie in between.
OutputIsFunctionOfPropsAndState ==
  mounted => view = Render(title, articles, current, isOpen)

\* Expanded for the second time (three activations): the list of the two
\* entries, the first one highlighted.
OutputFunctionWitness ==
  /\ Expanded /\ toggles = 3
  /\ articles.defined /\ Len(Entries) = 2
  /\ IsCurrent(1) /\ ~IsCurrent(2)
  /\ Items = <<Item(Entries[1], 0, current), Item(Entries[2], 1, current)>>

\* C15: the toggle state belongs to one instance: with two instances on the
\* page, an activation on one changes nothing of the other (its flag, its
\* props, its rendered output), and under every interleaving each
\* instance's state is the parity of its own activations.
InstancesIndependent ==
  /\ [][/\ ToggleOther => UNCHANGED instance
        /\ Toggle => UNCHANGED other]_vars
  /\ []((mounted /\ other.mounted) =>
          /\ isOpen <=> (toggles % 2 = 1)
          /\ other.isOpen <=> (other.toggles % 2 = 1)
          /\ view = Render(title, articles, current, isOpen)
          /\ other.view = Render(other.title, other.articles, other.current, other.isOpen))

\* Both mounted, the first Expanded after three activations, the second
\* Collapsed after two, each over its own props.
InstancesWitness ==
  /\ Expanded /\ toggles = 3
  /\ other.mounted /\ ~other.isOpen /\ other.toggles = 2
  /\ view.body # << >> /\ other.view.body = << >>
  /\ Len(Entries) = 2 /\ other.articles = EmptyArticles

\* The entry at position k of the array of the next state is the current
\* article of the next state.
IsCurrentNext(k) == ~articles'.items[k].null /\ articles'.items[k].slug = current'

\* C21: a re-render of a mounted instance with another current slug or
\* another articles array keeps the toggle state, and the highlighted items
\* of the new output are exactly the entries of the new array whose slug is
\* the new current: none stays highlighted from the earlier props.
RerenderKeepsStateAndRehighlights ==
  [][(mounted /\ mounted' /\ toggles' = toggles
        /\ (current' # current \/ articles' # articles)) =>
       /\ isOpen' = isOpen
       /\ (view'.body # << >>) = isOpen
       /\ isOpen =>
            /\ Len(view'.body[1].items) = Len(articles'.items)
            /\ \A k \in 1..Len(articles'.items) :
                 (view'.body[1].items[k].class = HighlightClass) <=> IsCurrentNext(k)]_vars

\* Expanded once and then re-rendered: the highlight sits on the second
\* entry, the current one, and not on the first.
RehighlightWitness ==
  /\ Expanded /\ toggles = 1
  /\ articles.defined /\ Len(Entries) = 2
  /\ ~Entries[1].null /\ Entries[1].slug = "foo-bar"
  /\ current = "c# tips" /\ IsCurrent(2)
  /\ Items[1].class = DefaultClass /\ Items[2].class = HighlightClass

\* C22: the aria-expanded attribute of the toggle button is the constant
\* "true" in every state of a mounted instance, Collapsed included.
AriaExpandedConstant ==
  mounted => /\ Len(view.header) = 1
             /\ view.header[1].button.ariaExpanded = "true"

\* Collapsed, never toggled, and aria-expanded is "true".
AriaExpandedWitness ==
  /\ Collapsed /\ toggles = 0 /\ ~ListRendered
  /\ view.header[1].button.ariaExpanded = "true"
  /\ title = "Nest.js" /\ articles = EmptyArticles

\* C23: with articles undefined, an Expanded instance renders the list
\* container with no item in it, the very output articles = [] gives; the
\* container is not omitted and the render does not throw.
UndefinedArticlesRenderEmptyList ==
  (mounted /\ isOpen /\ ~articles.defined) =>
    /\ ~crashed
    /\ Len(view.body) = 1
    /\ view.body[1].id = "accordion-collapse-body"
    /\ view.body[1].items = << >>
    /\ view = Render(title, EmptyArticles, current, TRUE)

\* articles undefined since the mount, expanded by one activation.
UndefinedArticlesWitness ==
  /\ Expanded /\ toggles = 1 /\ opened = ""
  /\ ~articles.defined /\ current = "foo-bar"
  /\ Len(view.body) = 1 /\ view.body[1].items = << >>

\* The class tokens of a className.
Tokens(class) == {class[k] : k \in 1..Len(class)}

\* C24: every rendered item carries exactly one of the two class sets, the
\* highlighted or the default one, never both and never neither, for every
\* entry (null ones included) and every current slug.
ItemHasOneClassSet ==
  (mounted /\ ListRendered) =>
    \A k \in 1..Len(Items) :
      LET has(set) == Tokens(set) \subseteq Tokens(Items[k].class)
      IN /\ has(HighlightClass) # has(DefaultClass)
         /\ Items[k].class \in {HighlightClass, DefaultClass}

\* A null entry with the default set next to the current entry with the
\* highlighted set.
OneClassSetWitness ==
  /\ Expanded /\ articles.defined /\ Len(Entries) = 2
  /\ Entries[1].null /\ IsCurrent(2)
  /\ Items[1].class = DefaultClass /\ Items[2].class = HighlightClass

\* C25: the class list of the header row contains "border-b-slate-200" if
\* and only if the widget is Expanded.
HeaderBorderIffExpanded ==
  mounted => ("border-b-slate-200" \in Tokens(view.header[1].class)) <=> isOpen

\* Collapsed after two activations: the border class is gone and the
\* interpolation left the token "false".
HeaderBorderWitness ==
  /\ Collapsed /\ toggles = 2 /\ articles.defined /\ Len(Entries) = 1
  /\ "border-b-slate-200" \notin Tokens(view.header[1].class)
  /\ "false" \in Tokens(view.header[1].class)

\* C26: the element the toggle button names in aria-controls
\* ("accordion-collapse-body") is in the rendered output exactly when the
\* widget is Expanded.
AriaControlsTargetIffExpanded ==
  mounted =>
    /\ view.header[1].button.ariaControls = "accordion-collapse-body"
    /\ (view.header[1].button.ariaControls \in ElementIds(view)) <=> isOpen

\* Expanded over undefined articles after three activations: the named
\* element exists.
AriaControlsWitness ==
  /\ Expanded /\ toggles = 3 /\ ~articles.defined /\ current = "x"
  /\ ElementIds(view) = {"accordion-collapse", "accordion-collapse-body"}

====
